---- MODULE Spec2Model ----
(***************************************************************************)
(* Model of jobpt_crawler.py: the scroll-driven link discovery             *)
(* (JobCrawlerPinecone.collect_job_links), the detail fetcher              *)
(* (parse_detail), the per-link crawl (crawl_job_details) and the          *)
(* orchestration in main.                                                  *)
(*                                                                         *)
(* The browser, the listing page and the posting pages are the             *)
(* environment: every call into the driver either returns a value drawn    *)
(* from a small set or throws.  Links (hrefs) are numbered 1, 2, ...       *)
(* Pauses are counted in tenths of a time unit.                            *)
(***************************************************************************)
EXTENDS Integers, Sequences, FiniteSets, TLC

(* ------------------------------ bounds --------------------------------- *)

\* number of distinct posting links the adversarial listing page can show
NumLinks == 3
\* MAX_LINKS is drawn from 0..MaxMaxLinks
MaxMaxLinks == 2
\* document.body.scrollHeight is drawn from 0..MaxHeight
MaxHeight == 2
\* parse_detail's retry argument is drawn from 0..MaxRetry when it is
\* exercised on its own
MaxRetry == 3
\* save_to_pinecone is exercised on its own with 1..MaxDocs documents
MaxDocs == 21
\* a posting page holds at most MaxDivs section containers
MaxDivs == 2
\* clean is applied to every text of at most MaxLen characters
MaxLen == 4

(* ------------------------- program constants --------------------------- *)

\* while ... and void_cnt < 3
VoidLimit == 3
\* last_height = 0
InitialHeight == 0
\* os.getenv('MAX_LINKS', 500)
DefaultMaxLinks == 500
\* def parse_detail(href, driver, retry: int = 2)
DefaultRetry == 2
\* time.sleep(0.5) in parse_detail's except handler, in tenths
RetryPause == 5
\* time.sleep(0.5) after the click on the "show more" button, in tenths
ClickPause == 5
\* os.getenv('CRAWL_DELAY', 2), in tenths
CrawlDelay == 20
\* batch_size = 10
BatchSize == 10

Links == 1..NumLinks
Heights == 0..MaxHeight
\* the stub listing that exposes five anchors and never any more
Static5 == 1..5

(* ------------------------------ helpers -------------------------------- *)

Range(s) == {s[k] : k \in DOMAIN s}

Min(a, b) == IF a <= b THEN a ELSE b

IsInjective(s) == \A a, b \in DOMAIN s : s[a] = s[b] => a = b

\* every sequence that lists the elements of S once each
Orderings(S) == {s \in [1..Cardinality(S) -> S] : IsInjective(s)}

VARIABLES
    pc,          \* position in main / collect_job_links / parse_detail
    driver,      \* self.driver: "none", "open" or "closed"
    crawler,     \* main's crawler variable is bound (not None)
    outcome,     \* how main ended: "running", "returned" or "raised"
    max_links,   \* self.max_links
    listing,     \* the listing page: "any" (adversarial) or "static5"
    hrefs,       \* the discovered set
    void_cnt,    \* consecutive cycles without a new link
    last_height, \* height recorded by the previous cycle
    discovered,  \* history: the links in order of discovery
    cycles,      \* history: number of scans made
    scans,       \* history: for each scan made, whether it added a link
    measured,    \* history: the last two heights measured, newest last
    d_exc,       \* history: collect_job_links went through its except handler
    d_raised,    \* collect_job_links raised to its caller
    job_links,   \* the sequence collect_job_links returned
    idx,         \* crawl_job_details: enumerate index i (0-based)
    jobs,        \* crawl_job_details: the list of collected records
    crawl_log,   \* history: the calls, results and pauses of the crawl loop
    href,        \* parse_detail: the link being fetched
    retry,       \* parse_detail: the retry argument
    attempt,     \* parse_detail: the loop variable
    extracted,   \* parse_detail: <<>> or <<record>> of the current attempt
    pd_result,   \* parse_detail: <<>> for None, <<record>> for a record
    trace,       \* history: what the current parse_detail call did
    backup_in,   \* history: the list handed to save_raw_data
    docs_in,     \* history: the list handed to create_documents
    backup_ok,   \* save_raw_data returned a file name (not None)
    batch_at,    \* save_to_pinecone: the loop variable i
    saved,       \* save_to_pinecone: total_saved
    batch_log,   \* history: the batches handed to add_documents, in order
    summary,     \* <<>> or <<the summary written>>
    markup,      \* field extraction: the header elements of the page
    sect,        \* history: per section key, the last container with it
    ndivs,       \* field extraction: section containers scanned so far
    head,        \* field extraction: title, company, due date, location
    detail,      \* field extraction: the dict of the six sections
    x_out,       \* field extraction: <<>> or <<the result record>>
    x_raised,    \* field extraction: an exception left the extraction
    text,        \* clean: the argument, a sequence of characters
    cleaned,     \* clean: <<clean(text)>> once it returned
    recleaned    \* clean: <<clean(clean(text))>> once it returned

vars == <<pc, driver, crawler, outcome, max_links, listing, hrefs, void_cnt,
          last_height, discovered, cycles, scans, measured, d_exc, d_raised,
          job_links, idx, jobs, crawl_log, href, retry, attempt, extracted, pd_result,
          trace, backup_in, docs_in, backup_ok, batch_at, saved, batch_log,
          summary, markup, sect, ndivs, head, detail, x_out, x_raised,
          text, cleaned, recleaned>>

extractVars == <<markup, sect, ndivs, head, detail, x_out, x_raised>>
cleanVars == <<text, cleaned, recleaned>>
mainVars == <<driver, crawler, outcome, max_links, listing>>
discVars == <<hrefs, void_cnt, last_height, discovered, cycles, scans, measured,
              d_exc, d_raised>>
crawlVars == <<idx, jobs, crawl_log>>
fetchVars == <<href, retry, attempt, extracted, pd_result, trace>>
tailVars == <<backup_in, docs_in, backup_ok, batch_at, saved, batch_log,
             summary>>

(* ===================== collect_job_links ============================== *)

\* mutant: the void counter is not part of the loop condition
LoopCondNoVoid(h, m, v) == Cardinality(h) < m

\* mutant: one void cycle too many is allowed
LoopCondOffByOne(h, m, v) == Cardinality(h) < m /\ v <= VoidLimit

\* while len(hrefs) < self.max_links and void_cnt < 3
LoopCond(h, m, v) == Cardinality(h) < m /\ v < VoidLimit

\* mutant: a void cycle is not counted
NextVoidStuck(added, v) == IF added > 0 THEN 0 ELSE v

\* mutant: the counter is never reset
NextVoidNoReset(added, v) == v + 1

\* if added_count > 0: void_cnt = 0  else: void_cnt += 1
NextVoid(added, v) == IF added > 0 THEN 0 ELSE v + 1

\* if len(hrefs) >= self.max_links: break
SizeReached(h, m) == Cardinality(h) >= m

\* if new_height == last_height: break
HeightStable(new, last) == new = last

\* list(hrefs): a set has no defined iteration order
ListOf(h) == Orderings(h)

\* mutant: the output is not truncated
TruncateNone(s, m) == s

\* [:self.max_links]
Truncate(s, m) == SubSeq(s, 1, Min(Len(s), m))

\* except Exception as e: ... return []
ExceptReturn(h) == <<>>

\* mutant: the exception is not caught
DiscoveryLeaks == FALSE

\* the whole body of collect_job_links is inside try/except Exception
DiscoveryCatches == TRUE

\* what the listing page can show in one scan
PageShows == IF listing = "static5" THEN {Static5} ELSE SUBSET Links

\* an exception inside the try block
DiscFail ==
    /\ IF DiscoveryCatches
          THEN /\ job_links' = ExceptReturn(hrefs)
               /\ d_exc' = TRUE
               /\ d_raised' = FALSE
          ELSE /\ job_links' = <<>>
               /\ d_exc' = FALSE
               /\ d_raised' = TRUE
    /\ pc' = "d_return"
    /\ UNCHANGED <<hrefs, void_cnt, last_height, discovered, cycles, scans,
                   measured>>

\* self.driver.get(LIST_URL)
DiscGet ==
    /\ pc = "d_get"
    /\ \/ /\ pc' = "d_wait"
          /\ UNCHANGED <<discVars, job_links>>
       \/ DiscFail
    /\ UNCHANGED <<mainVars, crawlVars, fetchVars, tailVars>>
    /\ UNCHANGED <<extractVars, cleanVars>>

\* WebDriverWait(self.driver, 30).until(first card present); then the locals
DiscWait ==
    /\ pc = "d_wait"
    /\ \/ /\ pc' = "d_head"
          /\ hrefs' = {}
          /\ void_cnt' = 0
          /\ last_height' = InitialHeight
          /\ UNCHANGED <<discovered, cycles, scans, measured, d_exc, d_raised,
                         job_links>>
       \/ DiscFail
    /\ UNCHANGED <<mainVars, crawlVars, fetchVars, tailVars>>
    /\ UNCHANGED <<extractVars, cleanVars>>

\* the while condition
DiscHead ==
    /\ pc = "d_head"
    /\ pc' = IF LoopCond(hrefs, max_links, void_cnt) THEN "d_scan"
                                                       ELSE "d_finish"
    /\ UNCHANGED <<discVars, job_links, mainVars, crawlVars, fetchVars,
                   tailVars>>
    /\ UNCHANGED <<extractVars, cleanVars>>

\* page_source, the scan of the card anchors, the void counter, the size check
DiscScan ==
    /\ pc = "d_scan"
    /\ \/ \E shown \in PageShows :
          \E new \in Orderings(shown \ hrefs) :
             /\ hrefs' = hrefs \cup shown
             /\ discovered' = discovered \o new
             /\ void_cnt' = NextVoid(Cardinality(hrefs') - Cardinality(hrefs),
                                     void_cnt)
             /\ cycles' = cycles + 1
             /\ scans' = Append(scans, hrefs' # hrefs)
             /\ pc' = IF SizeReached(hrefs', max_links) THEN "d_finish"
                                                        ELSE "d_scroll"
             /\ UNCHANGED <<last_height, measured, d_exc, d_raised, job_links>>
       \/ DiscFail
    /\ UNCHANGED <<mainVars, crawlVars, fetchVars, tailVars>>
    /\ UNCHANGED <<extractVars, cleanVars>>

\* execute_script("window.scrollTo(...)"); time.sleep(self.scroll_pause)
DiscScroll ==
    /\ pc = "d_scroll"
    /\ \/ /\ pc' = "d_measure"
          /\ UNCHANGED <<discVars, job_links>>
       \/ DiscFail
    /\ UNCHANGED <<mainVars, crawlVars, fetchVars, tailVars>>
    /\ UNCHANGED <<extractVars, cleanVars>>

\* new_height = execute_script("return document.body.scrollHeight")
DiscMeasure ==
    /\ pc = "d_measure"
    /\ \/ \E new_height \in Heights :
             /\ measured' = IF measured = <<>> THEN <<new_height>>
                            ELSE <<measured[Len(measured)], new_height>>
             /\ IF HeightStable(new_height, last_height)
                   THEN /\ pc' = "d_finish"
                        /\ UNCHANGED last_height
                   ELSE /\ pc' = "d_head"
                        /\ last_height' = new_height
             /\ UNCHANGED <<hrefs, void_cnt, discovered, cycles, scans, d_exc,
                            d_raised, job_links>>
       \/ DiscFail
    /\ UNCHANGED <<mainVars, crawlVars, fetchVars, tailVars>>
    /\ UNCHANGED <<extractVars, cleanVars>>

\* final_links = list(hrefs)[:self.max_links]; return final_links
DiscFinish ==
    /\ pc = "d_finish"
    /\ \E order \in ListOf(hrefs) :
          job_links' = Truncate(order, max_links)
    /\ pc' = "d_return"
    /\ UNCHANGED <<discVars, mainVars, crawlVars, fetchVars, tailVars>>
    /\ UNCHANGED <<extractVars, cleanVars>>

NextDiscover ==
    \/ DiscGet
    \/ DiscWait
    \/ DiscHead
    \/ DiscScan
    \/ DiscScroll
    \/ DiscMeasure
    \/ DiscFinish

(* =========================== parse_detail ============================== *)

\* what the scoped selectors can yield after clean(): empty or some text
Titles == {"", "t"}
Companies == {"", "c"}

\* one entry of the history of a parse_detail call
Ev(e, d) == [ev |-> e, dur |-> d, title |-> "", company |-> ""]
ExtractEv(t, c) == [ev |-> "extract", dur |-> 0, title |-> t, company |-> c]

\* result = {"url": url, "title": title, "company": company, ...}
Result(h, t, c) == [url |-> h, title |-> t, company |-> c]

\* for attempt in range(retry)
InRange(a, r) == a < r

\* mutant: both fields are required
UsableBoth(t, c) == t # "" /\ c # ""

\* mutant: the record is returned unchecked
UsableAlways(t, c) == TRUE

\* if title or company
Usable(t, c) == t # "" \/ c # ""

\* mutant: the handler does not pause
ExceptNoPause == <<>>

\* except Exception as e: err = e; ...; time.sleep(0.5)
ExceptPause == <<Ev("pause", RetryPause)>>

\* else: logger.warning(...); continue
EmptyPause == <<>>

\* an exception inside the try block of one attempt
PdFail(why) ==
    /\ trace' = trace \o <<Ev(why, 0)>> \o ExceptPause
    /\ attempt' = attempt + 1
    /\ pc' = "pd_head"
    /\ UNCHANGED <<href, retry, extracted, pd_result>>

\* the for statement; after the loop: return None
PdHead ==
    /\ pc = "pd_head"
    /\ IF InRange(attempt, retry)
          THEN /\ pc' = "pd_get"
               /\ UNCHANGED pd_result
          ELSE /\ pc' = "pd_return"
               /\ pd_result' = <<>>
    /\ UNCHANGED <<href, retry, attempt, extracted, trace>>
    /\ UNCHANGED <<mainVars, discVars, job_links, crawlVars, tailVars>>
    /\ UNCHANGED <<extractVars, cleanVars>>

\* driver.get(url)
PdGet ==
    /\ pc = "pd_get"
    /\ \/ /\ trace' = Append(trace, Ev("get", 0))
          /\ pc' = "pd_wait"
          /\ UNCHANGED <<href, retry, attempt, extracted, pd_result>>
       \/ PdFail("get_error")
    /\ UNCHANGED <<mainVars, discVars, job_links, crawlVars, tailVars>>
    /\ UNCHANGED <<extractVars, cleanVars>>

\* WebDriverWait(driver, 10).until(presence of h1, h2)
PdWait ==
    /\ pc = "pd_wait"
    /\ \/ /\ trace' = Append(trace, Ev("heading", 0))
          /\ pc' = "pd_click"
          /\ UNCHANGED <<href, retry, attempt, extracted, pd_result>>
       \/ PdFail("timeout")
    /\ UNCHANGED <<mainVars, discVars, job_links, crawlVars, tailVars>>
    /\ UNCHANGED <<extractVars, cleanVars>>

\* the best-effort click on the "show more" button
PdClick ==
    /\ pc = "pd_click"
    /\ \/ trace' = trace \o <<Ev("click", 0), Ev("click_pause", ClickPause)>>
       \/ trace' = Append(trace, Ev("no_click", 0))
    /\ pc' = "pd_extract"
    /\ UNCHANGED <<href, retry, attempt, extracted, pd_result>>
    /\ UNCHANGED <<mainVars, discVars, job_links, crawlVars, tailVars>>
    /\ UNCHANGED <<extractVars, cleanVars>>

\* page_source, the field extraction and the check of title and company
PdExtract ==
    /\ pc = "pd_extract"
    /\ \/ \E t \in Titles, c \in Companies :
             /\ extracted' = <<Result(href, t, c)>>
             /\ IF Usable(t, c)
                   THEN /\ trace' = Append(trace, ExtractEv(t, c))
                        /\ pd_result' = <<Result(href, t, c)>>
                        /\ pc' = "pd_return"
                        /\ UNCHANGED attempt
                   ELSE /\ trace' = Append(trace, ExtractEv(t, c)) \o EmptyPause
                        /\ attempt' = attempt + 1
                        /\ pc' = "pd_head"
                        /\ UNCHANGED pd_result
             /\ UNCHANGED <<href, retry>>
       \/ PdFail("extract_error")
    /\ UNCHANGED <<mainVars, discVars, job_links, crawlVars, tailVars>>
    /\ UNCHANGED <<extractVars, cleanVars>>

NextFetch ==
    \/ PdHead
    \/ PdGet
    \/ PdWait
    \/ PdClick
    \/ PdExtract

(* ================================ clean ================================ *)

\* the characters clean distinguishes: a letter, the letter n, the space,
\* the line feed (written N), the backslash, the bullets U+2022 (written *)
\* and U+25A0 (written #), the zero-width space U+200B (written Z) and the
\* no-break space U+00A0 (written X)
Chars == {"a", "n", " ", "N", "\\", "*", "#", "Z", "X"}

\* what str.strip() removes: space, line feed, no-break space
Whitespace == {" ", "N", "X"}

Texts == UNION {[1..k -> Chars] : k \in 0..MaxLen}

\* str.replace(old, new) for a pattern of one character
RECURSIVE Replace1(_, _, _)
Replace1(s, old, new) ==
    IF s = <<>> THEN <<>>
    ELSE IF Head(s) = old THEN new \o Replace1(Tail(s), old, new)
    ELSE <<Head(s)>> \o Replace1(Tail(s), old, new)

\* str.replace(old, new) for a pattern of two characters: the occurrences
\* are taken from the left and do not overlap, the result is not rescanned
RECURSIVE Replace2(_, _, _)
Replace2(s, old, new) ==
    IF Len(s) < 2 THEN s
    ELSE IF <<s[1], s[2]>> = old
            THEN new \o Replace2(Tail(Tail(s)), old, new)
    ELSE <<Head(s)>> \o Replace2(Tail(s), old, new)

RECURSIVE LStrip(_)
LStrip(s) ==
    IF s # <<>> /\ Head(s) \in Whitespace THEN LStrip(Tail(s)) ELSE s

RECURSIVE RStrip(_)
RStrip(s) ==
    IF s # <<>> /\ s[Len(s)] \in Whitespace
       THEN RStrip(SubSeq(s, 1, Len(s) - 1))
       ELSE s

\* str.strip()
Strip(s) == RStrip(LStrip(s))

\* clean(text) for a str argument: the chain of replacements, then strip
clean(s) ==
    LET s1 == Replace1(s, "*", <<>>)
        s2 == Replace1(s1, "#", <<>>)
        s3 == Replace1(s2, "N", <<" ">>)
        s4 == Replace2(s3, <<"\\", "n">>, <<" ">>)
        s5 == Replace2(s4, <<" ", " ">>, <<" ">>)
        s6 == Replace1(s5, "Z", <<>>)
        s7 == Replace1(s6, "X", <<" ">>)
    IN  Strip(s7)

\* one call clean(text)
Clean ==
    /\ pc = "c_text"
    /\ cleaned' = <<clean(text)>>
    /\ pc' = "c_cleaned"
    /\ UNCHANGED <<text, recleaned>>
    /\ UNCHANGED <<mainVars, discVars, job_links, crawlVars, fetchVars,
                   tailVars, extractVars>>

\* a second call on the result of the first
CleanAgain ==
    /\ pc = "c_cleaned"
    /\ recleaned' = <<clean(cleaned[1])>>
    /\ pc' = "c_recleaned"
    /\ UNCHANGED <<text, cleaned>>
    /\ UNCHANGED <<mainVars, discVars, job_links, crawlVars, fetchVars,
                   tailVars, extractVars>>

NextClean ==
    \/ Clean
    \/ CleanAgain

(* ============== field extraction (inside parse_detail) ================= *)

\* the keys of the detail dict: 포지션상세, 주요업무, 자격요건, 우대사항,
\* 채용 전형, 혜택 및 복지
SectionKeys == {"position_detail", "responsibilities", "qualifications",
                "preferred", "hiring_process", "benefits"}

\* the keys of the result: url, title, company, 마감일, 근무지역 and the six
FieldNames == {"url", "title", "company", "due_date", "work_location"}
                  \cup SectionKeys

\* the header elements a page can hold, each present, damaged or absent
Markups ==
    [title : {"absent", "empty", "text"},
     company : {"absent", "empty", "text"},
     due : {"absent", "no_h2", "no_marker", "no_span", "ok"},
     loc : {"absent", "no_span", "ok"},
     intro : {"absent", "span", "nospan", "raises"}]

\* the h3 of a section container: one of the six keys, another text, or none
Headings == SectionKeys \cup {"other", "none"}
\* the body of a container: the nested span, no such span, or an element
\* on which select_one / get_text throws
Bodies == {"span", "nospan", "raises"}

\* marks an exception that leaves extract_block
Raise == "<exception>"

\* mutant: extract_block has no try/except
ExtractBlockUncaught(body) ==
    CASE body = "span" -> "span text"
      [] body = "nospan" -> "all text"
      [] OTHER -> Raise

\* extract_block(div)
ExtractBlock(body) ==
    CASE body = "span" -> "span text"
      [] body = "nospan" -> "all text"
      [] OTHER -> ""

\* title = clean(title_el.text) if title_el else ""
TitleOf(m) == IF m.title = "text" THEN "t" ELSE ""

\* company = clean(company_el.text) if company_el else ""
CompanyOf(m) == IF m.company = "text" THEN "c" ELSE ""

\* due_date: the article, its h2 with the 마감일 marker, its span
DueOf(m) == IF m.due = "ok" THEN "due" ELSE ""

\* work_location: the article and its span
LocOf(m) == IF m.loc = "ok" THEN "loc" ELSE ""

\* detail = {"포지션상세": "", "주요업무": "", ...}
EmptyDetail == [k \in SectionKeys |-> ""]

\* title, company, due date, work location, the dict and the intro div
ExtractHeader ==
    /\ pc = "x_head"
    /\ head' = [title |-> TitleOf(markup), company |-> CompanyOf(markup),
                due_date |-> DueOf(markup), work_location |-> LocOf(markup)]
    /\ IF markup.intro = "absent"
          THEN /\ detail' = EmptyDetail
               /\ pc' = "x_divs"
               /\ UNCHANGED x_raised
          ELSE IF ExtractBlock(markup.intro) = Raise
                  THEN /\ x_raised' = TRUE
                       /\ pc' = "x_done"
                       /\ UNCHANGED detail
                  ELSE /\ detail' = [EmptyDetail EXCEPT !["position_detail"] =
                                        ExtractBlock(markup.intro)]
                       /\ pc' = "x_divs"
                       /\ UNCHANGED x_raised
    /\ UNCHANGED <<markup, sect, ndivs, x_out>>
    /\ UNCHANGED <<mainVars, discVars, job_links, crawlVars, fetchVars,
                   tailVars, cleanVars>>

\* one container of the loop over the section containers
ExtractDiv ==
    /\ pc = "x_divs"
    /\ ndivs < MaxDivs
    /\ \E h \in Headings, b \in Bodies :
          /\ ndivs' = ndivs + 1
          /\ IF h = "none"
                THEN /\ pc' = "x_divs"
                     /\ UNCHANGED <<sect, detail, x_raised>>
                ELSE IF ExtractBlock(b) = Raise
                        THEN /\ x_raised' = TRUE
                             /\ pc' = "x_done"
                             /\ UNCHANGED <<sect, detail>>
                        ELSE /\ pc' = "x_divs"
                             /\ UNCHANGED x_raised
                             /\ IF h \in DOMAIN detail
                                   THEN /\ detail' = [detail EXCEPT ![h] =
                                                         ExtractBlock(b)]
                                        /\ sect' = [sect EXCEPT ![h] = b]
                                   ELSE UNCHANGED <<sect, detail>>
    /\ UNCHANGED <<markup, head, x_out>>
    /\ UNCHANGED <<mainVars, discVars, job_links, crawlVars, fetchVars,
                   tailVars, cleanVars>>

\* result = {"url": url, "title": title, ..., **detail}
ExtractDone ==
    /\ pc = "x_divs"
    /\ x_out' = <<[f \in FieldNames |->
                     CASE f = "url" -> "url"
                       [] f \in DOMAIN head -> head[f]
                       [] OTHER -> detail[f]]>>
    /\ pc' = "x_done"
    /\ UNCHANGED <<markup, sect, ndivs, head, detail, x_raised>>
    /\ UNCHANGED <<mainVars, discVars, job_links, crawlVars, fetchVars,
                   tailVars, cleanVars>>

NextExtract ==
    \/ ExtractHeader
    \/ ExtractDiv
    \/ ExtractDone

(* ======================== crawl_job_details ============================ *)

\* if job_detail:
Truthy(r) == r # <<>>

\* mutant: the record is tagged with the loop variable itself
TaggedZeroBased(r, i) == [url |-> r.url, title |-> r.title,
                          company |-> r.company, link_index |-> i]

\* job_detail.update({..., "link_index": i + 1})
Tagged(r, i) == [url |-> r.url, title |-> r.title, company |-> r.company,
                 link_index |-> i + 1]

\* one entry of the history of crawl_job_details
CrawlEv(e, h, ok, d) == [ev |-> e, link |-> h, ok |-> ok, dur |-> d]

\* mutant: the pause is taken only after a successful fetch
DelayOnSuccess(h, ok) ==
    IF ok THEN <<CrawlEv("delay", h, ok, CrawlDelay)>> ELSE <<>>

\* time.sleep(self.crawl_delay), after the if/else on job_detail
DelayAfter(h, ok) == <<CrawlEv("delay", h, ok, CrawlDelay)>>

\* for i, href in enumerate(job_links): job_detail = parse_detail(href, driver)
CrawlHead ==
    /\ pc = "c_head"
    /\ IF idx < Len(job_links)
          THEN /\ href' = job_links[idx + 1]
               /\ crawl_log' = Append(crawl_log,
                                      CrawlEv("fetch", job_links[idx + 1],
                                              FALSE, 0))
               /\ retry' = DefaultRetry
               /\ attempt' = 0
               /\ trace' = <<>>
               /\ extracted' = <<>>
               /\ pd_result' = <<>>
               /\ pc' = "pd_head"
          ELSE /\ pc' = "m_jobs"
               /\ UNCHANGED <<fetchVars, crawl_log>>
    /\ UNCHANGED <<mainVars, discVars, job_links, idx, jobs, tailVars>>
    /\ UNCHANGED <<extractVars, cleanVars>>

\* the rest of the loop body: append on success, then time.sleep(crawl_delay)
CrawlAfter ==
    /\ pc = "pd_return"
    /\ jobs' = IF Truthy(pd_result)
                  THEN Append(jobs, Tagged(pd_result[1], idx))
                  ELSE jobs
    /\ crawl_log' = crawl_log
                     \o <<CrawlEv("result", href, Truthy(pd_result), 0)>>
                     \o DelayAfter(href, Truthy(pd_result))
    /\ idx' = idx + 1
    /\ pc' = "c_head"
    /\ href' = 0
    /\ attempt' = 0
    /\ trace' = <<>>
    /\ extracted' = <<>>
    /\ pd_result' = <<>>
    /\ UNCHANGED <<retry, mainVars, discVars, job_links, tailVars>>
    /\ UNCHANGED <<extractVars, cleanVars>>

(* ================================ main ================================= *)

\* finally: if crawler: crawler.cleanup()
Leave(how) ==
    /\ outcome' = how
    /\ pc' = IF crawler' THEN "m_cleanup" ELSE "done"

\* crawler = JobCrawlerPinecone()
MainInit ==
    /\ pc = "m_init"
    /\ \/ /\ crawler' = TRUE
          /\ pc' = "m_index"
          /\ UNCHANGED outcome
       \/ /\ crawler' = FALSE
          /\ Leave("raised")
    /\ UNCHANGED <<driver, max_links, listing, discVars, job_links, crawlVars,
                   fetchVars, tailVars>>
    /\ UNCHANGED <<extractVars, cleanVars>>

\* if not crawler.setup_pinecone_index(): return
MainIndex ==
    /\ pc = "m_index"
    /\ \/ /\ pc' = "m_driver"
          /\ UNCHANGED <<crawler, outcome>>
       \/ /\ UNCHANGED crawler
          /\ Leave("returned")
    /\ UNCHANGED <<driver, max_links, listing, discVars, job_links, crawlVars,
                   fetchVars, tailVars>>
    /\ UNCHANGED <<extractVars, cleanVars>>

\* if not crawler.setup_driver(): return   (setup_driver raises on failure)
MainDriver ==
    /\ pc = "m_driver"
    /\ \/ /\ driver' = "open"
          /\ pc' = "d_get"
          /\ UNCHANGED <<crawler, outcome>>
       \/ /\ UNCHANGED <<driver, crawler>>
          /\ Leave("raised")
    /\ UNCHANGED <<max_links, listing, discVars, job_links, crawlVars,
                   fetchVars, tailVars>>
    /\ UNCHANGED <<extractVars, cleanVars>>

\* job_links = crawler.collect_job_links(); if not job_links: return
MainCollected ==
    /\ pc = "d_return"
    /\ IF d_raised
          THEN /\ UNCHANGED crawler
               /\ Leave("raised")
          ELSE IF job_links = <<>>
                  THEN /\ UNCHANGED crawler
                       /\ Leave("returned")
                  ELSE /\ pc' = "c_head"
                       /\ UNCHANGED <<crawler, outcome>>
    /\ hrefs' = {}
    /\ void_cnt' = 0
    /\ last_height' = InitialHeight
    /\ discovered' = <<>>
    /\ cycles' = 0
    /\ scans' = <<>>
    /\ measured' = <<>>
    /\ UNCHANGED <<d_exc, d_raised>>
    /\ idx' = 0
    /\ jobs' = <<>>
    /\ crawl_log' = <<>>
    /\ UNCHANGED <<driver, max_links, listing, job_links, fetchVars, tailVars>>
    /\ UNCHANGED <<extractVars, cleanVars>>

\* jobs = crawler.crawl_job_details(job_links); if not jobs: return
MainJobs ==
    /\ pc = "m_jobs"
    /\ IF jobs = <<>>
          THEN /\ UNCHANGED crawler
               /\ Leave("returned")
          ELSE /\ pc' = "m_backup"
               /\ UNCHANGED <<crawler, outcome>>
    /\ UNCHANGED <<driver, max_links, listing, discVars, job_links, crawlVars,
                   fetchVars, tailVars>>
    /\ UNCHANGED <<extractVars, cleanVars>>

\* backup_file = crawler.save_raw_data(jobs)
MainBackup ==
    /\ pc = "m_backup"
    /\ backup_in' = jobs
    /\ backup_ok' \in BOOLEAN
    /\ pc' = "m_docs"
    /\ UNCHANGED <<docs_in, batch_at, saved, batch_log, summary>>
    /\ UNCHANGED <<mainVars, discVars, job_links, crawlVars, fetchVars>>
    /\ UNCHANGED <<extractVars, cleanVars>>

\* documents = crawler.create_documents(jobs)
MainDocs ==
    /\ pc = "m_docs"
    /\ docs_in' = jobs
    /\ batch_at' = 0
    /\ saved' = 0
    /\ \/ /\ pc' = "s_head"
          /\ UNCHANGED <<crawler, outcome>>
       \/ /\ UNCHANGED crawler
          /\ Leave("raised")
    /\ UNCHANGED <<backup_in, backup_ok, batch_log, summary>>
    /\ UNCHANGED <<driver, max_links, listing, discVars, job_links, crawlVars,
                   fetchVars>>
    /\ UNCHANGED <<extractVars, cleanVars>>

\* mutant: every batch counts as a full one
BatchLenFull(i, n) == BatchSize

\* len(documents[i:i + batch_size])
BatchLen(i, n) == Min(BatchSize, n - i)

\* range(0, len(documents), batch_size): the next value of i
NextBatch(i) == i + BatchSize

\* mutant: a failed batch ends the loop
OnBatchErrorBreak(i, n) == n

\* except Exception as e: logger.error(...); continue
OnBatchError(i, n) == NextBatch(i)

\* one entry of the history of save_to_pinecone
Batch(i, n, ok) == [start |-> i, size |-> BatchLen(i, n), ok |-> ok]

\* save_to_pinecone: for i in range(0, len(documents), batch_size)
SaveBatch ==
    /\ pc = "s_head"
    /\ IF batch_at < Len(docs_in)
          THEN /\ \/ /\ saved' = saved + BatchLen(batch_at, Len(docs_in))
                     /\ batch_log' = Append(batch_log,
                                            Batch(batch_at, Len(docs_in), TRUE))
                     /\ batch_at' = NextBatch(batch_at)
                  \/ /\ saved' = saved
                     /\ batch_log' = Append(batch_log,
                                            Batch(batch_at, Len(docs_in), FALSE))
                     /\ batch_at' = OnBatchError(batch_at, Len(docs_in))
               /\ pc' = "s_head"
          ELSE /\ pc' = "m_summary"
               /\ UNCHANGED <<batch_at, saved, batch_log>>
    /\ UNCHANGED <<backup_in, docs_in, backup_ok, summary>>
    /\ UNCHANGED <<mainVars, discVars, job_links, crawlVars, fetchVars>>
    /\ UNCHANGED <<extractVars, cleanVars>>

\* summary = {...}; with open('logs/crawl_summary.json', 'a') as f: f.write(...)
MainSummary ==
    /\ pc = "m_summary"
    /\ \/ /\ summary' = <<[total_links |-> Len(job_links),
                           total_crawled |-> Len(jobs),
                           total_saved |-> saved,
                           backup_file |-> backup_ok]>>
          /\ UNCHANGED crawler
          /\ Leave("returned")
       \/ /\ UNCHANGED <<summary, crawler>>
          /\ Leave("raised")
    /\ UNCHANGED <<backup_in, docs_in, backup_ok, batch_at, saved, batch_log>>
    /\ UNCHANGED <<driver, max_links, listing, discVars, job_links, crawlVars,
                   fetchVars>>
    /\ UNCHANGED <<extractVars, cleanVars>>

\* mutant: cleanup leaves the session open
QuitSkipped(d) == d

\* if self.driver: self.driver.quit()
Quit(d) == IF d = "open" THEN "closed" ELSE d

\* finally: crawler.cleanup()
MainCleanup ==
    /\ pc = "m_cleanup"
    /\ driver' = Quit(driver)
    /\ pc' = "done"
    /\ UNCHANGED <<crawler, outcome, max_links, listing, discVars, job_links,
                   crawlVars, fetchVars, tailVars>>
    /\ UNCHANGED <<extractVars, cleanVars>>

(* ========================== specifications ============================= *)

BlankMain ==
    /\ driver = "none"
    /\ crawler = FALSE
    /\ outcome = "running"

BlankDiscovery ==
    /\ hrefs = {}
    /\ void_cnt = 0
    /\ last_height = InitialHeight
    /\ discovered = <<>>
    /\ cycles = 0
    /\ scans = <<>>
    /\ measured = <<>>
    /\ d_exc = FALSE
    /\ d_raised = FALSE

BlankCrawl ==
    /\ job_links = <<>>
    /\ idx = 0
    /\ jobs = <<>>
    /\ crawl_log = <<>>

BlankFetch ==
    /\ attempt = 0
    /\ extracted = <<>>
    /\ pd_result = <<>>
    /\ trace = <<>>

BlankTail ==
    /\ backup_in = <<>>
    /\ docs_in = <<>>
    /\ backup_ok = FALSE
    /\ batch_at = 0
    /\ saved = 0
    /\ batch_log = <<>>
    /\ summary = <<>>

BlankExtract ==
    /\ markup = [title |-> "absent", company |-> "absent", due |-> "absent",
                 loc |-> "absent", intro |-> "absent"]
    /\ sect = [k \in SectionKeys |-> "absent"]
    /\ ndivs = 0
    /\ head = [title |-> "", company |-> "", due_date |-> "",
               work_location |-> ""]
    /\ detail = EmptyDetail
    /\ x_out = <<>>
    /\ x_raised = FALSE

BlankClean ==
    /\ text = <<>>
    /\ cleaned = <<>>
    /\ recleaned = <<>>

Blank ==
    /\ BlankMain
    /\ BlankDiscovery
    /\ BlankCrawl
    /\ BlankFetch
    /\ BlankTail
    /\ BlankExtract
    /\ BlankClean

\* a whole run of main against an adversarial site
Init ==
    /\ Blank
    /\ pc = "m_init"
    /\ max_links \in 0..MaxMaxLinks
    /\ listing = "any"
    /\ href = 0
    /\ retry = DefaultRetry

Next ==
    \/ MainInit
    \/ MainIndex
    \/ MainDriver
    \/ DiscGet
    \/ DiscWait
    \/ DiscHead
    \/ DiscScan
    \/ DiscScroll
    \/ DiscMeasure
    \/ DiscFinish
    \/ MainCollected
    \/ CrawlHead
    \/ PdHead
    \/ PdGet
    \/ PdWait
    \/ PdClick
    \/ PdExtract
    \/ CrawlAfter
    \/ MainJobs
    \/ MainBackup
    \/ MainDocs
    \/ SaveBatch
    \/ MainSummary
    \/ MainCleanup

Spec == Init /\ [][Next]_vars

\* collect_job_links alone, on the stub listing of five anchors that never
\* grows, with the default link cap
InitStatic5 ==
    /\ Blank
    /\ pc = "d_get"
    /\ max_links = DefaultMaxLinks
    /\ listing = "static5"
    /\ href = 0
    /\ retry = DefaultRetry

SpecStatic5 == InitStatic5 /\ [][NextDiscover]_vars

\* parse_detail alone, for every retry argument
InitFetch ==
    /\ Blank
    /\ pc = "pd_head"
    /\ max_links = DefaultMaxLinks
    /\ listing = "any"
    /\ href \in Links
    /\ retry \in 0..MaxRetry

SpecFetch == InitFetch /\ [][NextFetch]_vars

\* the records crawl_job_details collected when every one of n links gave one
Collected(n) == [k \in 1..n |-> Tagged(Result(k, "t", "c"), k - 1)]

\* main from the call of save_to_pinecone on, with 1..MaxDocs documents
InitSave ==
    /\ pc = "s_head"
    /\ driver = "open"
    /\ crawler = TRUE
    /\ outcome = "running"
    /\ max_links = DefaultMaxLinks
    /\ listing = "any"
    /\ BlankDiscovery
    /\ \E n \in 1..MaxDocs :
          /\ job_links = [k \in 1..n |-> k]
          /\ idx = n
          /\ jobs = Collected(n)
          /\ crawl_log = <<>>
          /\ backup_in = Collected(n)
          /\ docs_in = Collected(n)
    /\ href = 0
    /\ retry = DefaultRetry
    /\ BlankFetch
    /\ backup_ok \in BOOLEAN
    /\ batch_at = 0
    /\ saved = 0
    /\ batch_log = <<>>
    /\ summary = <<>>
    /\ BlankExtract
    /\ BlankClean

NextSave ==
    \/ SaveBatch
    \/ MainSummary
    \/ MainCleanup

SpecSave == InitSave /\ [][NextSave]_vars

\* the field extraction alone, for every page
InitExtract ==
    /\ BlankMain
    /\ BlankDiscovery
    /\ BlankCrawl
    /\ BlankFetch
    /\ BlankTail
    /\ pc = "x_head"
    /\ max_links = DefaultMaxLinks
    /\ listing = "any"
    /\ href = 0
    /\ retry = DefaultRetry
    /\ markup \in Markups
    /\ sect = [k \in SectionKeys |-> "absent"]
    /\ ndivs = 0
    /\ head = [title |-> "", company |-> "", due_date |-> "",
               work_location |-> ""]
    /\ detail = EmptyDetail
    /\ x_out = <<>>
    /\ x_raised = FALSE
    /\ BlankClean

SpecExtract == InitExtract /\ [][NextExtract]_vars

\* clean alone, for every text
InitClean ==
    /\ BlankMain
    /\ BlankDiscovery
    /\ BlankCrawl
    /\ BlankFetch
    /\ BlankTail
    /\ BlankExtract
    /\ pc = "c_text"
    /\ max_links = DefaultMaxLinks
    /\ listing = "any"
    /\ href = 0
    /\ retry = DefaultRetry
    /\ text \in Texts
    /\ cleaned = <<>>
    /\ recleaned = <<>>

SpecClean == InitClean /\ [][NextClean]_vars

(* ============================== claims ================================= *)

\* the three stop conditions of the discovery loop, as the claims name them
SizeStop == Cardinality(hrefs) >= max_links
VoidStop == void_cnt >= 3
\* the height just measured equals the height measured in the previous cycle
HeightStopPrevCycle == Len(measured) = 2 /\ measured[2] = measured[1]
\* the height just measured equals the recorded last height, which is the
\* previous cycle's measurement, or 0 when there is no previous cycle
HeightStopRecorded ==
    /\ measured # <<>>
    /\ measured[Len(measured)] = (IF Len(measured) = 2 THEN measured[1] ELSE 0)

\* a record the claims call usable: title or company is not empty
HasTitleOrCompany(r) == r.title # "" \/ r.company # ""

\* positions of the current parse_detail history holding event e
At(e) == {k \in DOMAIN trace : trace[k].ev = e}
\* positions holding an extraction with a non-empty title or company
UsableAt == {k \in At("extract") : HasTitleOrCompany(trace[k])}

\* C1: whatever the listing page shows and for every maxLinks, the sequence
\* collect_job_links returns has at most maxLinks elements and holds no link
\* twice.
C1_AtMostMaxLinksNoDuplicates ==
    /\ Len(job_links) <= max_links
    /\ IsInjective(job_links)

\* C1 witness: more links than maxLinks were discovered and the run returned.
C1_Witness ==
    /\ pc = "d_return"
    /\ max_links > 0
    /\ Cardinality(hrefs) > max_links
    /\ Len(job_links) = max_links

\* C2: discovery makes at most 3 * maxLinks scroll cycles, whatever the
\* page does (heights that change on every scroll, cards that keep coming).
C2_CyclesBounded == cycles <= 3 * max_links

\* C2 witness: a run that used the whole bound, with two void cycles before
\* each new card, and then left the loop.
C2_Witness ==
    /\ pc = "d_finish"
    /\ max_links >= 2
    /\ cycles = 3 * max_links
    /\ Cardinality(hrefs) >= max_links

\* C3 (as claimed): when an exception occurs in the discovery loop after at
\* least one link was added, discovery returns the links discovered so far,
\* a non-empty sequence.
C3_ReturnsDiscoveredOnException ==
    (pc = "d_return" /\ d_exc /\ hrefs # {}) =>
        (job_links # <<>> /\ Range(job_links) \subseteq hrefs)

\* C4: collect_job_links never raises to its caller; every failure of the
\* page load, the wait, a scan, a scroll or a height measurement ends in a
\* returned sequence.
C4_NeverRaises ==
    /\ ~d_raised
    /\ d_exc => (pc # "d_finish" /\ job_links \in Seq(Links))

\* C4 witness: a failure inside the loop, after a scan, was turned into a
\* return.
C4_Witness == pc = "d_return" /\ d_exc /\ cycles >= 1 /\ ~d_raised

\* C5 (as claimed): when more than maxLinks links were discovered, discovery
\* returns exactly maxLinks links, the first maxLinks in order of discovery.
C5_FirstMaxLinksByDiscovery ==
    (pc = "d_return" /\ ~d_exc /\ Cardinality(hrefs) > max_links) =>
        /\ Len(job_links) = max_links
        /\ job_links = SubSeq(discovered, 1, max_links)

\* C6 (as claimed): in an exception-free run the loop has stopped only if the
\* size is reached, the measured height equals the height measured in the
\* previous cycle, or the void counter is 3; and another cycle is run only
\* while none of the three holds; the scroll is made only below the size.
C6_StopsOnPrevCycleHeight ==
    /\ pc = "d_finish" => (SizeStop \/ HeightStopPrevCycle \/ VoidStop)
    /\ pc = "d_scan" => ~(SizeStop \/ HeightStopPrevCycle \/ VoidStop)
    /\ pc \in {"d_scroll", "d_measure"} => ~SizeStop

\* C6 (amended): the same, the height condition being that the measured
\* height equals the recorded last height: the height measured in the
\* previous cycle, or the initial 0 in the first cycle.
C6_StopsOnRecordedHeight ==
    /\ pc = "d_finish" => (SizeStop \/ HeightStopRecorded \/ VoidStop)
    /\ pc = "d_scan" => ~(SizeStop \/ HeightStopRecorded \/ VoidStop)
    /\ pc \in {"d_scroll", "d_measure"} => ~SizeStop

\* C6 witness: the loop stopped on the height alone, in a later cycle.
C6_Witness ==
    /\ pc = "d_finish"
    /\ Len(measured) = 2
    /\ HeightStopRecorded
    /\ ~SizeStop
    /\ ~VoidStop

\* C7 (as claimed): on the listing of 5 anchors that never grows, with
\* maxLinks = 500, an exception-free discovery returns exactly those 5
\* links and the void counter has reached 3.
C7_StopsByVoidCounter ==
    (pc = "d_return" /\ ~d_exc) =>
        /\ Range(job_links) = Static5
        /\ Len(job_links) = 5
        /\ void_cnt = 3

\* C7 (amended): such a discovery returns exactly those 5 links after at
\* most 4 scans; the void counter has reached 3 exactly when 4 scans were
\* made, and a run of fewer scans stopped because the measured height
\* equalled the recorded last height.
C7_StopsByVoidOrHeight ==
    (pc = "d_return" /\ ~d_exc) =>
        /\ Range(job_links) = Static5
        /\ Len(job_links) = 5
        /\ cycles \in 1..4
        /\ void_cnt = cycles - 1
        /\ (void_cnt = 3) <=> (cycles = 4)
        /\ cycles < 4 => HeightStopRecorded

\* C7 witness: the run that stops on the void counter alone.
C7_Witness ==
    /\ pc = "d_return"
    /\ ~d_exc
    /\ Range(job_links) = Static5
    /\ void_cnt = 3
    /\ ~HeightStopRecorded

\* C8: parse_detail navigates at most retry times; it returns the record of
\* the first extraction with a title or a company and does nothing after it;
\* it returns None exactly when no attempt produced such a record.
C8_FirstUsableRecordOrNone ==
    /\ Cardinality(At("get") \cup At("get_error")) <= retry
    /\ UsableAt \subseteq {Len(trace)}
    /\ UsableAt # {} => pc = "pd_return"
    /\ pc = "pd_return" =>
          /\ (pd_result = <<>>) <=> (UsableAt = {})
          /\ pd_result # <<>> =>
                pd_result = <<[url |-> href,
                               title |-> trace[Len(trace)].title,
                               company |-> trace[Len(trace)].company]>>
          /\ pd_result = <<>> => attempt = retry

\* C8 witness: with retry = 3 the second attempt gave the record, after a
\* first attempt that extracted neither title nor company.
C8_Witness ==
    /\ pc = "pd_return"
    /\ retry = 3
    /\ pd_result # <<>>
    /\ Cardinality(At("get")) = 2
    /\ Cardinality(At("extract")) = 2

\* the case of C9: retry = 2, attempt 1 timed out waiting for the heading and
\* a later attempt extracted a title or a company
C9_Case ==
    /\ pc = "pd_return"
    /\ retry = 2
    /\ Len(trace) >= 2
    /\ trace[1].ev = "get"
    /\ trace[2].ev = "timeout"
    /\ UsableAt # {}

\* C9: in that case parse_detail returns the record of attempt 2, the
\* extraction ran at most twice, and the pause of 0.5 lies between the
\* timeout of attempt 1 and the navigation of attempt 2.
C9_SecondAttemptAfterPause ==
    C9_Case =>
        /\ pd_result = <<[url |-> href,
                          title |-> trace[Len(trace)].title,
                          company |-> trace[Len(trace)].company]>>
        /\ trace[Len(trace)].ev = "extract"
        /\ Cardinality(At("extract")) <= 2
        /\ Len(trace) >= 4
        /\ trace[3] = [ev |-> "pause", dur |-> 5, title |-> "", company |-> ""]
        /\ trace[4].ev = "get"
        /\ At("get") = {1, 4}

\* C9 witness: the case happened.
C9_Witness == C9_Case /\ pd_result # <<>>

\* C10: every record of the lists handed to save_raw_data and to
\* create_documents, and of the list being collected, has a title or a
\* company and is the tagged record of the fetch of its link.
C10_NoEmptyRecordForwarded ==
    \A list \in {jobs, backup_in, docs_in} :
        \A k \in DOMAIN list :
            /\ HasTitleOrCompany(list[k])
            /\ list[k].link_index \in DOMAIN job_links
            /\ list[k].url = job_links[list[k].link_index]

\* C10 witness: documents were created while the fetch of one link was
\* discarded.
C10_Witness ==
    /\ pc = "s_head"
    /\ docs_in # <<>>
    /\ backup_in = docs_in
    /\ Len(docs_in) < Len(job_links)

\* C11: the browser session is acquired at most once (it opens only from
\* "none" and is never reopened after it was closed), and main never ends,
\* on any exit path, with the session still open.
C11_SessionOnceAndClosed ==
    [][/\ driver' # driver =>
             \/ (driver = "none" /\ driver' = "open")
             \/ (driver = "open" /\ driver' = "closed")
       /\ pc' = "done" => driver' # "open"]_vars

\* C11 witness: main ended by an exception raised after the session was
\* acquired, and the session is closed.
C11_Witness ==
    /\ pc = "done"
    /\ outcome = "raised"
    /\ driver = "closed"

\* C12 (as claimed): every run that established its session and ended
\* without an exception has written a run summary.
C12_SummaryAlwaysProduced ==
    (pc = "done" /\ driver # "none" /\ outcome = "returned") => summary # <<>>

\* total size of the batches of a history whose write did not throw
RECURSIVE SavedOf(_)
SavedOf(log) ==
    IF log = <<>> THEN 0
    ELSE (IF log[1].ok THEN log[1].size ELSE 0) + SavedOf(Tail(log))

\* C13: the documents are split into consecutive batches of 10, the last
\* possibly smaller; every batch is attempted once, in order, whether or not
\* earlier batches threw; total_saved is the sum of the sizes of the batches
\* that did not throw; the loop never aborts the run and the summary reports
\* that count.
C13_EveryBatchAttemptedOnce ==
    /\ \A k \in DOMAIN batch_log :
          /\ batch_log[k].start = 10 * (k - 1)
          /\ batch_log[k].start < Len(docs_in)
          /\ batch_log[k].size =
                (IF Len(docs_in) - batch_log[k].start < 10
                    THEN Len(docs_in) - batch_log[k].start ELSE 10)
    /\ saved = SavedOf(batch_log)
    /\ pc = "s_head" => (batch_at = 10 * Len(batch_log) /\ outcome = "running")
    /\ pc \in {"m_summary", "m_cleanup", "done"} =>
          Len(batch_log) = (Len(docs_in) + 9) \div 10
    /\ summary # <<>> => summary[1].total_saved = saved

\* C13 witness: three batches, the first threw, the others were written,
\* the last one smaller, and the summary was written.
C13_Witness ==
    /\ pc = "done"
    /\ summary # <<>>
    /\ Len(batch_log) = 3
    /\ ~batch_log[1].ok
    /\ batch_log[2].ok
    /\ batch_log[3].ok
    /\ batch_log[3].size < 10
    /\ summary[1].total_saved = Len(docs_in) - 10

\* positions of the crawl history holding event e
CrawlAt(e) == {k \in DOMAIN crawl_log : crawl_log[k].ev = e}

\* the crawl loop is running or has returned
InCrawl == pc \in {"c_head", "pd_head", "pd_get", "pd_wait", "pd_click",
                   "pd_extract", "pd_return"}

\* C14: the Detail Fetcher is called once for each link, in the order
\* returned by discovery; every call, whether it gave a record or None, is
\* followed by the inter-request delay of 2 before the next call; a failed
\* fetch does not stop the loop, which ends only after the last link.
C14_OneFetchPerLinkThenDelay ==
    /\ \A k \in DOMAIN crawl_log :
          LET link == job_links[(k + 2) \div 3]
          IN  /\ (k + 2) \div 3 \in DOMAIN job_links
              /\ crawl_log[k].link = link
              /\ k % 3 = 1 => crawl_log[k].ev = "fetch"
              /\ k % 3 = 2 => crawl_log[k].ev = "result"
              /\ k % 3 = 0 => (crawl_log[k].ev = "delay" /\ crawl_log[k].dur = 20)
    /\ pc = "c_head" => Len(crawl_log) = 3 * idx
    /\ (InCrawl /\ pc # "c_head") => Len(crawl_log) = 3 * idx + 1
    /\ pc \in {"m_jobs", "m_backup", "m_docs"} =>
          Len(crawl_log) = 3 * Len(job_links)

\* C14 witness: the loop ended after a failed fetch of the first link and a
\* successful fetch of the second.
C14_Witness ==
    /\ pc = "m_jobs"
    /\ Len(job_links) = 2
    /\ Len(crawl_log) = 6
    /\ ~crawl_log[2].ok
    /\ crawl_log[5].ok

\* what a header element or a container holds for the reader of the page:
\* its text when it is present and whole, nothing otherwise
TextOfBody(b) ==
    CASE b = "span" -> "span text"
      [] b = "nospan" -> "all text"
      [] OTHER -> ""

\* the six sections: the last container with that heading, else, for the
\* position detail, the intro container
SectionText(k) ==
    IF sect[k] # "absent" THEN TextOfBody(sect[k])
    ELSE IF k = "position_detail" THEN TextOfBody(markup.intro)
    ELSE ""

\* C15: for every page the extraction does not raise and yields a record of
\* the 11 named fields; a field whose element is absent, damaged or throws
\* holds the empty string, and every other field keeps its text.
C15_ExtractionTotal ==
    /\ ~x_raised
    /\ pc = "x_done" =>
          /\ x_out # <<>>
          /\ DOMAIN x_out[1] = {"url", "title", "company", "due_date",
                                "work_location", "position_detail",
                                "responsibilities", "qualifications",
                                "preferred", "hiring_process", "benefits"}
          /\ x_out[1].title = (IF markup.title = "text" THEN "t" ELSE "")
          /\ x_out[1].company = (IF markup.company = "text" THEN "c" ELSE "")
          /\ x_out[1].due_date = (IF markup.due = "ok" THEN "due" ELSE "")
          /\ x_out[1].work_location = (IF markup.loc = "ok" THEN "loc" ELSE "")
          /\ \A k \in {"position_detail", "responsibilities", "qualifications",
                       "preferred", "hiring_process", "benefits"} :
                x_out[1][k] = SectionText(k)

\* C15 witness: a page without title, with a damaged due-date article and a
\* section container that throws, next to a company and a whole section.
C15_Witness ==
    /\ pc = "x_done"
    /\ x_out # <<>>
    /\ markup.title = "absent"
    /\ markup.company = "text"
    /\ markup.due = "no_marker"
    /\ sect["responsibilities"] = "raises"
    /\ sect["benefits"] = "span"
    /\ x_out[1].responsibilities = ""
    /\ x_out[1].benefits = "span text"
    /\ x_out[1].company = "c"

\* the junk tokens: a bullet, a zero-width space, a no-break space, a
\* backslash followed by n, two spaces in a row
HasJunk(s) ==
    \/ \E i \in 1..Len(s) : s[i] \in {"*", "#", "Z", "X"}
    \/ \E i \in 1..(Len(s) - 1) : s[i] = "\\" /\ s[i + 1] = "n"
    \/ \E i \in 1..(Len(s) - 1) : s[i] = " " /\ s[i + 1] = " "

\* leading or trailing whitespace
HasOuterWhitespace(s) ==
    /\ s # <<>>
    /\ \/ s[1] \in {" ", "N", "X"}
       \/ s[Len(s)] \in {" ", "N", "X"}

\* C16: the output of clean holds no junk token and no leading or trailing
\* whitespace, and cleaning it again leaves it as it is.
C16_CleanNormalizes ==
    /\ cleaned # <<>> => /\ ~HasJunk(cleaned[1])
                         /\ ~HasOuterWhitespace(cleaned[1])
    /\ recleaned # <<>> => recleaned[1] = cleaned[1]

\* the number of most recent consecutive scans that added no link
RECURSIVE TrailingVoids(_)
TrailingVoids(h) ==
    IF h = <<>> \/ h[Len(h)] THEN 0
    ELSE 1 + TrailingVoids(SubSeq(h, 1, Len(h) - 1))

\* C17: the void counter stays in 0..3 and equals the number of most recent
\* consecutive scans that added no link; no scan is started once it is 3.
C17_VoidCounterCountsVoidCycles ==
    /\ void_cnt \in 0..3
    /\ void_cnt = TrailingVoids(scans)
    /\ pc = "d_scan" => void_cnt < 3

\* C17 witness: a scan with a new link, then three void scans while the
\* page height kept changing; the loop is left with the counter at 3.
C17_Witness ==
    /\ pc = "d_finish"
    /\ ~d_exc
    /\ scans = <<TRUE, FALSE, FALSE, FALSE>>
    /\ void_cnt = 3
    /\ Len(measured) = 2
    /\ measured[1] # measured[2]
    /\ Cardinality(hrefs) < max_links

\* C18: every navigation after the first of a call is directly preceded by
\* the pause of 0.5, whatever ended the attempt before it, and a pause is
\* always followed by another attempt.
C18_PauseBeforeEveryRetry ==
    /\ \A k \in At("get") :
          k > 1 => /\ trace[k - 1].ev = "pause"
                   /\ trace[k - 1].dur = 5
    /\ \A k \in At("pause") :
          /\ k < Len(trace) => trace[k + 1].ev = "get"
          /\ pc = "pd_return" => k < Len(trace)

\* positions of job_links whose fetch gave a record
FetchedPositions ==
    {p \in DOMAIN job_links :
        /\ 3 * p - 1 \in DOMAIN crawl_log
        /\ crawl_log[3 * p - 1].ok}

\* C19: the collected records stand in the order of their links; the
\* link_index of a record is the 1-based position of its link in job_links;
\* the indices increase strictly and are exactly the positions whose fetch
\* gave a record.
C19_RecordsInLinkOrderWithPosition ==
    /\ \A k \in DOMAIN jobs :
          /\ jobs[k].link_index \in 1..Len(job_links)
          /\ job_links[jobs[k].link_index] = jobs[k].url
    /\ \A j, k \in DOMAIN jobs :
          j < k => jobs[j].link_index < jobs[k].link_index
    /\ {jobs[k].link_index : k \in DOMAIN jobs} = FetchedPositions

\* C19 witness: of two links the first failed and the second gave a record,
\* which carries index 2.
C19_Witness ==
    /\ pc = "m_jobs"
    /\ Len(job_links) = 2
    /\ ~crawl_log[2].ok
    /\ Len(jobs) = 1
    /\ jobs[1].link_index = 2
    /\ jobs[1].url = job_links[2]

\* C20: in every written summary the saved count is at most the crawled
\* count, which is at most the link count, which is at most maxLinks; and
\* the link count is at least 1.
C20_SummaryCountsOrdered ==
    summary # <<>> =>
        /\ summary[1].total_saved <= summary[1].total_crawled
        /\ summary[1].total_crawled <= summary[1].total_links
        /\ summary[1].total_links <= max_links
        /\ summary[1].total_links >= 1

\* C20 witness: a summary of a run that found maxLinks links, lost one of
\* them in the crawl and saved the batch of the other.
C20_Witness ==
    /\ summary # <<>>
    /\ outcome = "returned"
    /\ summary[1].total_links = max_links
    /\ summary[1].total_crawled = summary[1].total_links - 1
    /\ summary[1].total_saved = 1

====
